---- MODULE Spec2Model ----
(***************************************************************************)
(* A state-machine model of the ST7565 display driver                      *)
(* (src/adafruit_st7565.py).  Every Python statement that touches a pin,   *)
(* the SPI device, the clock or a cached attribute is one step of the      *)
(* machine; the call stack is explicit, and an exception raised by the SPI *)
(* transport unwinds it after the `with` block has released the bus.       *)
(*                                                                         *)
(* The variable `log` is the record a mock transport / mock pins / mock    *)
(* clock would keep of the current top-level call.                         *)
(***************************************************************************)
EXTENDS Integers, Sequences, FiniteSets, TLC

VARIABLES
    stack,          \* call stack, innermost frame first: [fn, pc, arg]
    op,             \* the top-level call in progress, or the last one made:
                    \* its name, its argument, the caches as it began
    result,         \* "pending", "ok", or the exception that reached the caller
    ret,            \* value returned by the last property getter
    _dc_pin,        \* level of the data/command line (FALSE = command)
    _reset_pin,     \* TRUE iff a reset pin was given to the constructor
    reset_level,    \* level of the reset line
    spi_locked,     \* TRUE while the SPI device context is entered
    buffer,         \* self.buffer, 0-based in the code, 1-based here
    _contrast,      \* cached contrast
    _invert,        \* cached invert flag
    pagemap,        \* self.pagemap
    sent_contrast,  \* second byte of the last contrast pair written in full
    log,            \* events of the current top-level call, oldest first
    shown,          \* the bus writes of the first show() that completed with
                    \* the present buffer content, kept for comparison
    ctl             \* the display controller at the other end of the bus

vars == <<stack, op, result, ret, _dc_pin, _reset_pin, reset_level, spi_locked,
          buffer, _contrast, _invert, pagemap, sent_contrast, log, shown,
          ctl>>

-----------------------------------------------------------------------------
(* Class constants *)

LCDWIDTH == 128
LCDHEIGHT == 64
PAGEMAP == <<0, 1, 2, 3, 4, 5, 6, 7>>

CMD_DISPLAY_ON == \hAF
CMD_SET_DISP_START_LINE == \h40
CMD_SET_PAGE == \hB0
CMD_SET_COLUMN_UPPER == \h10
CMD_SET_COLUMN_LOWER == \h00
CMD_SET_ADC_REVERSE == \hA1
CMD_SET_DISP_NORMAL == \hA6
CMD_SET_DISP_REVERSE == \hA7
CMD_SET_ALLPTS_NORMAL == \hA4
CMD_SET_BIAS_7 == \hA3
CMD_SET_COM_NORMAL == \hC0
CMD_SET_POWER_CONTROL == \h28
CMD_SET_RESISTOR_RATIO == \h20
CMD_SET_VOLUME_FIRST == \h81
CMD_SET_VOLUME_SECOND == \h00

\* Python's None, for the contrast cache before the first setter call and
\* for "no value returned".  The setter only ever stores values >= 0.
None == -1

-----------------------------------------------------------------------------
(* Inputs the environment may supply *)

\* Arguments given to the contrast setter and to the constructor.
ContrastInputs == {-50, 0, 64, 127, 300}

\* Exceptions the SPI transport may raise from write().
BusErrors == {"OSError", "RuntimeError"}

\* Page maps of modules whose pages are wired in another order: a rotation
\* and the reversed order.
PageMaps == {<<1, 2, 3, 4, 5, 6, 7, 0>>, <<7, 6, 5, 4, 3, 2, 1, 0>>}

\* Bytes of the surface that the drawing primitives change, and the values
\* they store there: the first byte of page 0, one byte inside page 1, the
\* last byte of page 7.
DrawIndex == {0, 200, 1023}
DrawValue == {\hA5}
\* How many bytes of the surface the drawing primitives set in one run.
MaxDrawn == 1

-----------------------------------------------------------------------------
(* Python integer operators on non-negative operands *)

RECURSIVE BitAnd(_, _)
BitAnd(a, b) ==
    IF a = 0 \/ b = 0 THEN 0
    ELSE (a % 2) * (b % 2) + 2 * BitAnd(a \div 2, b \div 2)

RECURSIVE BitOr(_, _)
BitOr(a, b) ==
    IF a = 0 THEN b
    ELSE IF b = 0 THEN a
    ELSE (IF a % 2 = 1 \/ b % 2 = 1 THEN 1 ELSE 0)
         + 2 * BitOr(a \div 2, b \div 2)

ShiftLeft(a, n) == a * 2^n

ShiftRight(a, n) == a \div 2^n

Min(a, b) == IF a < b THEN a ELSE b

Max(a, b) == IF a > b THEN a ELSE b

\* s[a:b] for 0 <= a, 0 <= b: both ends are clipped to the length.
Slice(s, a, b) ==
    LET lo == Min(a, Len(s))
        hi == Max(lo, Min(b, Len(s)))
    IN  [i \in 1..(hi - lo) |-> s[lo + i]]

\* bytearray(n): n zero bytes.
ByteArray(n) == [i \in 1..n |-> 0]

-----------------------------------------------------------------------------
(* Call stack *)

Frame(fn, pc, arg) == [fn |-> fn, pc |-> pc, arg |-> arg, i |-> 0, exc |-> "none"]

Top == Head(stack)

At(fn, pc) == stack # <<>> /\ Top.fn = fn /\ Top.pc = pc

\* The stack with the running frame moved to `pc`.
Goto(pc) == <<[Top EXCEPT !.pc = pc]>> \o Tail(stack)

\* The stack after the running frame, continuing at `pc` once the callee
\* returns, has called `callee`.
Call(callee, pc) == <<callee>> \o Goto(pc)

\* The stack after a frame returns: frames whose own last statement was the
\* call return with it.
RECURSIVE Returned(_)
Returned(st) ==
    IF st # <<>> /\ Head(st).pc = "return" THEN Returned(Tail(st)) ELSE st

Return == Returned(Tail(stack))

\* What the caller of the top-level call sees once `st` is the stack.
Outcome(st) == IF st = <<>> THEN "ok" ELSE result

\* An exception leaves every frame: nothing in the driver catches it.
Unwind == <<>>

-----------------------------------------------------------------------------
(* Events of the log *)

ResetEv(level) == [k |-> "reset_pin", level |-> level]
SleepEv(ms) == [k |-> "sleep", ms |-> ms]
DcEv(level) == [k |-> "dc_pin", level |-> level]
EnterEv == [k |-> "enter"]
ExitEv == [k |-> "exit"]
\* One call of spi.write(data): the level of the data/command line during it,
\* and the exception it raised ("none": it returned).
WriteEv(data, raised) ==
    [k |-> "write", data |-> data, dc |-> _dc_pin, raised |-> raised]

\* The object exists for its caller: __init__ has returned.
Constructed ==
    ~(op.name = "__init__" /\ (stack # <<>> \/ result \in BusErrors))

Idle == stack = <<>> /\ Constructed

-----------------------------------------------------------------------------
(* The bus writes of show(), kept from one call to the next *)

\* Nothing is kept.
ShownOff == [on |-> FALSE, valid |-> FALSE, between |-> FALSE, ref |-> <<>>]

\* Writes are kept; none has been kept yet for the present buffer content.
ShownOn == [on |-> TRUE, valid |-> FALSE, between |-> FALSE, ref |-> <<>>]

\* Lines 142-160 have run to the end with the events l: the writes of the
\* first such call since the buffer changed become the reference.
Recorded(s, l) ==
    IF s.on /\ ~s.valid
    THEN [s EXCEPT !.valid = TRUE, !.between = FALSE,
                   !.ref = SelectSeq(l, LAMBDA e : e.k = "write")]
    ELSE s

\* A call of reset() or of a setter is made after the reference show().
Intervened(s) ==
    IF s.on /\ s.valid THEN [s EXCEPT !.between = TRUE] ELSE s

\* The buffer content changes: the reference is of another content.
Forgotten(s) == IF s.on THEN ShownOn ELSE s

-----------------------------------------------------------------------------
(* The ST7565 controller, as far as contrast and inversion go: a pulse on its
   reset line restores normal display and the default contrast, the display
   normal / display reverse commands set the inversion mode, and the byte
   that follows the volume-first command sets the 6-bit contrast register.
   Each of the two values carries where it came from: "power" (whatever the
   controller held before the driver was constructed), "init_reset" (the
   pulse of __init__), "reset" (a pulse of a later reset() call) or
   "command". *)

\* Contrast register of the controller after a reset.
CTL_DEFAULT_VOLUME == \h20

\* The controller is not observed.
CtlOff ==
    [on |-> FALSE, invert |-> FALSE, contrast |-> CTL_DEFAULT_VOLUME,
     armed |-> FALSE, invert_from |-> "power", contrast_from |-> "power"]

\* What the controller may hold when the driver is constructed.
CtlPowerOn ==
    {[on |-> TRUE, invert |-> i, contrast |-> v, armed |-> FALSE,
      invert_from |-> "power", contrast_from |-> "power"] :
        i \in BOOLEAN, v \in {CTL_DEFAULT_VOLUME, \h3F}}

\* The reset line goes low during top-level call `name`.
CtlReset(c, name) ==
    LET from == IF name = "__init__" THEN "init_reset" ELSE "reset"
    IN  IF c.on
        THEN [c EXCEPT !.invert = FALSE, !.contrast = CTL_DEFAULT_VOLUME,
                       !.armed = FALSE, !.invert_from = from,
                       !.contrast_from = from]
        ELSE c

\* The controller receives command byte `byte`.
CtlCommand(c, byte) ==
    IF ~c.on THEN c
    ELSE IF c.armed
    THEN [c EXCEPT !.contrast = BitAnd(byte, \h3F), !.armed = FALSE,
                   !.contrast_from = "command"]
    ELSE IF byte = CMD_SET_VOLUME_FIRST
    THEN [c EXCEPT !.armed = TRUE]
    ELSE IF byte \in {CMD_SET_DISP_NORMAL, CMD_SET_DISP_REVERSE}
    THEN [c EXCEPT !.invert = (byte = CMD_SET_DISP_REVERSE),
                   !.invert_from = "command"]
    ELSE c

-----------------------------------------------------------------------------
(* __init__ *)

\* Lines 83-96: pins configured, surface allocated, caches set; the next
\* statement is self.reset() on line 98.  The page map is one of `maps`, the
\* reset pin is given or not as `pins` says, and the two observers start as
\* `s` and as one of `controllers`.
Constructing(maps, pins, s, controllers) ==
    /\ \E c \in ContrastInputs :
         /\ stack = <<Frame("__init__", "reset", c)>>
         /\ op = [name |-> "__init__", arg |-> c,
                  was |-> [contrast |-> None, invert |-> FALSE]]
    /\ result = "pending"
    /\ ret = None
    /\ _dc_pin = FALSE
    /\ _reset_pin \in pins
    /\ reset_level = TRUE
    /\ spi_locked = FALSE
    /\ buffer = ByteArray(LCDHEIGHT * LCDWIDTH)
    /\ _contrast = None
    /\ _invert = FALSE
    /\ pagemap \in maps
    /\ sent_contrast = None
    /\ log = <<>>
    /\ shown = s
    /\ ctl \in controllers

\* The driver as the module ships it: the identity page map of line 53.
Init == Constructing({PAGEMAP}, BOOLEAN, ShownOff, {CtlOff})

\* A subclass that replaces the class attribute pagemap (line 53) by another
\* permutation of the pages.
InitPagemap == Constructing(PageMaps, BOOLEAN, ShownOff, {CtlOff})

\* The writes of show() calls are kept for comparison; a reset pin is given.
InitShown == Constructing({PAGEMAP}, {TRUE}, ShownOn, {CtlOff})

\* The controller is observed.
InitController == Constructing({PAGEMAP}, BOOLEAN, ShownOff, CtlPowerOn)

\* Mutant of InitSequence: the display is switched on before the resistor
\* ratio is set.
InitSequence_OnBeforeRatio == <<
    [cmd |-> CMD_SET_BIAS_7, ms |-> 0],
    [cmd |-> CMD_SET_ADC_REVERSE, ms |-> 0],
    [cmd |-> CMD_SET_COM_NORMAL, ms |-> 0],
    [cmd |-> CMD_SET_DISP_START_LINE, ms |-> 0],
    [cmd |-> BitOr(CMD_SET_POWER_CONTROL, 4), ms |-> 50],
    [cmd |-> BitOr(CMD_SET_POWER_CONTROL, 6), ms |-> 50],
    [cmd |-> BitOr(CMD_SET_POWER_CONTROL, 7), ms |-> 10],
    [cmd |-> CMD_DISPLAY_ON, ms |-> 0],
    [cmd |-> BitOr(CMD_SET_RESISTOR_RATIO, 7), ms |-> 0],
    [cmd |-> CMD_SET_ALLPTS_NORMAL, ms |-> 0] >>

\* Mutant of InitSequence: no delay after the third power stage.
InitSequence_NoFollowerDelay == <<
    [cmd |-> CMD_SET_BIAS_7, ms |-> 0],
    [cmd |-> CMD_SET_ADC_REVERSE, ms |-> 0],
    [cmd |-> CMD_SET_COM_NORMAL, ms |-> 0],
    [cmd |-> CMD_SET_DISP_START_LINE, ms |-> 0],
    [cmd |-> BitOr(CMD_SET_POWER_CONTROL, 4), ms |-> 50],
    [cmd |-> BitOr(CMD_SET_POWER_CONTROL, 6), ms |-> 50],
    [cmd |-> BitOr(CMD_SET_POWER_CONTROL, 7), ms |-> 0],
    [cmd |-> BitOr(CMD_SET_RESISTOR_RATIO, 7), ms |-> 0],
    [cmd |-> CMD_DISPLAY_ON, ms |-> 0],
    [cmd |-> CMD_SET_ALLPTS_NORMAL, ms |-> 0] >>

\* Lines 100-122: the commands written, and the sleep (ms) after each.
InitSequence == <<
    [cmd |-> CMD_SET_BIAS_7, ms |-> 0],
    [cmd |-> CMD_SET_ADC_REVERSE, ms |-> 0],
    [cmd |-> CMD_SET_COM_NORMAL, ms |-> 0],
    [cmd |-> CMD_SET_DISP_START_LINE, ms |-> 0],
    [cmd |-> BitOr(CMD_SET_POWER_CONTROL, 4), ms |-> 50],
    [cmd |-> BitOr(CMD_SET_POWER_CONTROL, 6), ms |-> 50],
    [cmd |-> BitOr(CMD_SET_POWER_CONTROL, 7), ms |-> 10],
    [cmd |-> BitOr(CMD_SET_RESISTOR_RATIO, 7), ms |-> 0],
    [cmd |-> CMD_DISPLAY_ON, ms |-> 0],
    [cmd |-> CMD_SET_ALLPTS_NORMAL, ms |-> 0] >>

\* Mutant of InitReset: __init__ does not call reset().
InitReset_Skipped ==
    /\ At("__init__", "reset")
    /\ stack' = Goto("cmd")
    /\ UNCHANGED <<op, result, ret, _dc_pin, _reset_pin, reset_level,
                   spi_locked, buffer, _contrast, _invert, pagemap,
                   sent_contrast, log, shown, ctl>>

\* Line 98: self.reset()
InitReset ==
    /\ At("__init__", "reset")
    /\ stack' = Call(Frame("reset", "test", None), "cmd")
    /\ UNCHANGED <<op, result, ret, _dc_pin, _reset_pin, reset_level,
                   spi_locked, buffer, _contrast, _invert, pagemap,
                   sent_contrast, log, shown, ctl>>

\* Where __init__ continues after entry n of InitSequence.
InitAfter(n) ==
    IF n < Len(InitSequence) THEN [Top EXCEPT !.pc = "cmd", !.i = n]
    ELSE [Top EXCEPT !.pc = "contrast", !.i = n]

\* Lines 101-122: self.write_cmd(...) of the next entry of InitSequence
InitWriteCmd ==
    /\ At("__init__", "cmd")
    /\ LET n == Top.i + 1
           e == InitSequence[n]
           cont == IF e.ms > 0 THEN [Top EXCEPT !.pc = "sleep", !.i = n]
                   ELSE InitAfter(n)
       IN  stack' = <<Frame("write_cmd", "dc", e.cmd), cont>> \o Tail(stack)
    /\ UNCHANGED <<op, result, ret, _dc_pin, _reset_pin, reset_level,
                   spi_locked, buffer, _contrast, _invert, pagemap,
                   sent_contrast, log, shown, ctl>>

\* Lines 110, 113, 116: time.sleep(...)
InitSleep ==
    /\ At("__init__", "sleep")
    /\ log' = Append(log, SleepEv(InitSequence[Top.i].ms))
    /\ stack' = <<InitAfter(Top.i)>> \o Tail(stack)
    /\ UNCHANGED <<op, result, ret, _dc_pin, _reset_pin, reset_level,
                   spi_locked, buffer, _contrast, _invert, pagemap,
                   sent_contrast, shown, ctl>>

\* Line 125: self.contrast = contrast, the last statement of __init__
InitContrast ==
    /\ At("__init__", "contrast")
    /\ stack' = Call(Frame("contrast", "clamp", Top.arg), "return")
    /\ UNCHANGED <<op, result, ret, _dc_pin, _reset_pin, reset_level,
                   spi_locked, buffer, _contrast, _invert, pagemap,
                   sent_contrast, log, shown, ctl>>

-----------------------------------------------------------------------------
(* reset() *)

\* Mutant of ResetTest: the pin is pulsed without testing that there is one.
ResetTest_Untested ==
    /\ At("reset", "test")
    /\ stack' = Goto("low")
    /\ UNCHANGED <<op, result, ret, _dc_pin, _reset_pin, reset_level,
                   spi_locked, buffer, _contrast, _invert, pagemap,
                   sent_contrast, log, shown, ctl>>

\* Line 129: if self._reset_pin
ResetTest ==
    /\ At("reset", "test")
    /\ stack' = IF _reset_pin THEN Goto("low") ELSE Return
    /\ result' = Outcome(stack')
    /\ UNCHANGED <<op, ret, _dc_pin, _reset_pin, reset_level, spi_locked,
                   buffer, _contrast, _invert, pagemap, sent_contrast, log,
                   shown, ctl>>

\* Line 131: self._reset_pin.value = False
ResetLow ==
    /\ At("reset", "low")
    /\ reset_level' = FALSE
    /\ log' = Append(log, ResetEv(FALSE))
    /\ ctl' = CtlReset(ctl, op.name)
    /\ stack' = Goto("sleep_low")
    /\ UNCHANGED <<op, result, ret, _dc_pin, _reset_pin, spi_locked, buffer,
                   _contrast, _invert, pagemap, sent_contrast, shown>>

\* Line 132: time.sleep(0.5)
ResetSleepLow ==
    /\ At("reset", "sleep_low")
    /\ log' = Append(log, SleepEv(500))
    /\ stack' = Goto("high")
    /\ UNCHANGED <<op, result, ret, _dc_pin, _reset_pin, reset_level,
                   spi_locked, buffer, _contrast, _invert, pagemap,
                   sent_contrast, shown, ctl>>

\* Mutant of ResetHigh: reset() also sets the invert cache to the value the
\* controller has after a reset.
ResetHigh_ClearsInvert ==
    /\ At("reset", "high")
    /\ reset_level' = TRUE
    /\ _invert' = FALSE
    /\ log' = Append(log, ResetEv(TRUE))
    /\ stack' = Goto("sleep_high")
    /\ UNCHANGED <<op, result, ret, _dc_pin, _reset_pin, spi_locked, buffer,
                   _contrast, pagemap, sent_contrast, shown, ctl>>

\* Line 133: self._reset_pin.value = True
ResetHigh ==
    /\ At("reset", "high")
    /\ reset_level' = TRUE
    /\ log' = Append(log, ResetEv(TRUE))
    /\ stack' = Goto("sleep_high")
    /\ UNCHANGED <<op, result, ret, _dc_pin, _reset_pin, spi_locked, buffer,
                   _contrast, _invert, pagemap, sent_contrast, shown, ctl>>

\* Mutant of ResetSleepHigh: reset() returns without the second delay.
ResetSleepHigh_NoSettle ==
    /\ At("reset", "sleep_high")
    /\ stack' = Return
    /\ result' = Outcome(stack')
    /\ UNCHANGED <<op, ret, _dc_pin, _reset_pin, reset_level, spi_locked,
                   buffer, _contrast, _invert, pagemap, sent_contrast, log,
                   shown, ctl>>

\* Line 134: time.sleep(0.5), the last statement of reset()
ResetSleepHigh ==
    /\ At("reset", "sleep_high")
    /\ log' = Append(log, SleepEv(500))
    /\ stack' = Return
    /\ result' = Outcome(stack')
    /\ UNCHANGED <<op, ret, _dc_pin, _reset_pin, reset_level, spi_locked,
                   buffer, _contrast, _invert, pagemap, sent_contrast,
                   shown, ctl>>

-----------------------------------------------------------------------------
(* write_cmd(cmd) *)

\* The writes of a log that returned, oldest first.
Written(l) ==
    SelectSeq(l, LAMBDA e : e.k = "write" /\ e.raised = "none")

\* Lines 185-186 seen from the bus: the write of command byte `cmd` completes
\* a contrast pair iff the write before it, in the same call, was the
\* volume-first command.
CompletesPair(l, cmd) ==
    LET w == Written(l)
    IN  /\ w # <<>>
        /\ ~w[Len(w)].dc
        /\ w[Len(w)].data = <<CMD_SET_VOLUME_FIRST>>

\* Mutant of WriteCmdDc: write_cmd leaves the data/command line as it is.
WriteCmdDc_Forgotten ==
    /\ At("write_cmd", "dc")
    /\ stack' = Goto("enter")
    /\ UNCHANGED <<op, result, ret, _dc_pin, _reset_pin, reset_level,
                   spi_locked, buffer, _contrast, _invert, pagemap,
                   sent_contrast, log, shown, ctl>>

\* Line 138: self._dc_pin.value = False
WriteCmdDc ==
    /\ At("write_cmd", "dc")
    /\ _dc_pin' = FALSE
    /\ log' = Append(log, DcEv(FALSE))
    /\ stack' = Goto("enter")
    /\ UNCHANGED <<op, result, ret, _reset_pin, reset_level, spi_locked,
                   buffer, _contrast, _invert, pagemap, sent_contrast,
                   shown, ctl>>

\* Line 139: with self.spi_device as spi (the context is entered)
WriteCmdEnter ==
    /\ At("write_cmd", "enter")
    /\ spi_locked' = TRUE
    /\ log' = Append(log, EnterEv)
    /\ stack' = Goto("write")
    /\ UNCHANGED <<op, result, ret, _dc_pin, _reset_pin, reset_level, buffer,
                   _contrast, _invert, pagemap, sent_contrast, shown, ctl>>

\* Line 140: spi.write(bytearray([cmd])) returns
WriteCmdWrite ==
    /\ At("write_cmd", "write")
    /\ log' = Append(log, WriteEv(<<Top.arg>>, "none"))
    /\ sent_contrast' =
         IF CompletesPair(log, Top.arg) THEN Top.arg ELSE sent_contrast
    /\ ctl' = CtlCommand(ctl, Top.arg)
    /\ stack' = Goto("exit")
    /\ UNCHANGED <<op, result, ret, _dc_pin, _reset_pin, reset_level,
                   spi_locked, buffer, _contrast, _invert, pagemap, shown>>

\* Line 140: spi.write(bytearray([cmd])) raises e
WriteCmdWriteFail(e) ==
    /\ At("write_cmd", "write")
    /\ log' = Append(log, WriteEv(<<Top.arg>>, e))
    /\ stack' = <<[Top EXCEPT !.pc = "exit", !.exc = e]>> \o Tail(stack)
    /\ UNCHANGED <<op, result, ret, _dc_pin, _reset_pin, reset_level,
                   spi_locked, buffer, _contrast, _invert, pagemap,
                   sent_contrast, shown, ctl>>

\* Mutant of WriteCmdExit: the bus is released only when the write returned
\* (a release written after the write instead of a with block).
WriteCmdExit_LeakOnError ==
    /\ At("write_cmd", "exit")
    /\ IF Top.exc = "none"
       THEN /\ spi_locked' = FALSE
            /\ log' = Append(log, ExitEv)
            /\ stack' = Return
            /\ result' = Outcome(stack')
       ELSE /\ spi_locked' = spi_locked
            /\ log' = log
            /\ stack' = Unwind
            /\ result' = Top.exc
    /\ UNCHANGED <<op, ret, _dc_pin, _reset_pin, reset_level, buffer,
                   _contrast, _invert, pagemap, sent_contrast, shown, ctl>>

\* Mutant of WriteCmdExit: the exception raised inside the block is
\* swallowed and write_cmd returns.
WriteCmdExit_Swallowed ==
    /\ At("write_cmd", "exit")
    /\ spi_locked' = FALSE
    /\ log' = Append(log, ExitEv)
    /\ stack' = Return
    /\ result' = Outcome(stack')
    /\ UNCHANGED <<op, ret, _dc_pin, _reset_pin, reset_level, buffer,
                   _contrast, _invert, pagemap, sent_contrast, shown, ctl>>

\* Lines 139-140: the context is left; write_cmd returns, or the exception
\* raised inside the block goes on to the caller.
WriteCmdExit ==
    /\ At("write_cmd", "exit")
    /\ spi_locked' = FALSE
    /\ log' = Append(log, ExitEv)
    /\ IF Top.exc = "none"
       THEN /\ stack' = Return
            /\ result' = Outcome(stack')
       ELSE /\ stack' = Unwind
            /\ result' = Top.exc
    /\ UNCHANGED <<op, ret, _dc_pin, _reset_pin, reset_level, buffer,
                   _contrast, _invert, pagemap, sent_contrast, shown, ctl>>

-----------------------------------------------------------------------------
(* show() *)

\* Mutant of SetPageCmd: the loop variable is taken for the physical page.
SetPageCmd_Direct(pm, page) == BitOr(CMD_SET_PAGE, page)

\* Line 147: CMD_SET_PAGE | self.pagemap[page]
SetPageCmd(pm, page) == BitOr(CMD_SET_PAGE, pm[page + 1])

\* Line 149: CMD_SET_COLUMN_LOWER | (0 & 0xF)
ColumnLowerCmd == BitOr(CMD_SET_COLUMN_LOWER, BitAnd(0, \hF))

\* Mutant of ColumnUpperCmd: the lower-nibble opcode is used twice.
ColumnUpperCmd_LowerOpcode ==
    BitOr(CMD_SET_COLUMN_LOWER, BitAnd(ShiftRight(0, 4), \hF))

\* Line 151: CMD_SET_COLUMN_UPPER | ((0 >> 4) & 0xF)
ColumnUpperCmd == BitOr(CMD_SET_COLUMN_UPPER, BitAnd(ShiftRight(0, 4), \hF))

\* Line 154: row_start = page << 7
RowStart(page) == ShiftLeft(page, 7)

\* Line 156: row_stop = (page + 1) << 7
RowStop(page) == ShiftLeft(page + 1, 7)

\* Mutant of PageData: the slice starts and stops one byte late.
PageData_OneByteLate(buf, page) ==
    Slice(buf, RowStart(page) + 1, RowStop(page) + 1)

\* Line 160: self.buffer[row_start:row_stop]
PageData(buf, page) == Slice(buf, RowStart(page), RowStop(page))

\* Mutant of ShowFor: show() returns at once when the data/command line is
\* still high, that is when nothing was written since the last transfer.
ShowFor_SkipRepeated ==
    /\ At("show", "for")
    /\ stack' = IF Top.i < Len(pagemap) /\ ~(Top.i = 0 /\ _dc_pin)
                THEN <<[Top EXCEPT !.pc = "set_page", !.i = Top.i + 1,
                                   !.arg = pagemap[Top.i + 1]]>> \o Tail(stack)
                ELSE Return
    /\ result' = Outcome(stack')
    /\ shown' = IF stack' # <<>> THEN shown ELSE Recorded(shown, log)
    /\ UNCHANGED <<op, ret, _dc_pin, _reset_pin, reset_level, spi_locked,
                   buffer, _contrast, _invert, pagemap, sent_contrast, log,
                   ctl>>

\* Line 144: for page in self.pagemap (frame field i counts the pages taken,
\* arg is the loop variable `page`)
ShowFor ==
    /\ At("show", "for")
    /\ stack' = IF Top.i < Len(pagemap)
                THEN <<[Top EXCEPT !.pc = "set_page", !.i = Top.i + 1,
                                   !.arg = pagemap[Top.i + 1]]>> \o Tail(stack)
                ELSE Return
    /\ result' = Outcome(stack')
    /\ shown' = IF Top.i < Len(pagemap) THEN shown ELSE Recorded(shown, log)
    /\ UNCHANGED <<op, ret, _dc_pin, _reset_pin, reset_level, spi_locked,
                   buffer, _contrast, _invert, pagemap, sent_contrast, log,
                   ctl>>

\* Line 147: self.write_cmd(self.CMD_SET_PAGE | self.pagemap[page])
ShowSetPage ==
    /\ At("show", "set_page")
    /\ stack' = Call(Frame("write_cmd", "dc", SetPageCmd(pagemap, Top.arg)),
                     "column_lower")
    /\ UNCHANGED <<op, result, ret, _dc_pin, _reset_pin, reset_level,
                   spi_locked, buffer, _contrast, _invert, pagemap,
                   sent_contrast, log, shown, ctl>>

\* Line 149: self.write_cmd(self.CMD_SET_COLUMN_LOWER | (0 & 0xF))
ShowColumnLower ==
    /\ At("show", "column_lower")
    /\ stack' = Call(Frame("write_cmd", "dc", ColumnLowerCmd), "column_upper")
    /\ UNCHANGED <<op, result, ret, _dc_pin, _reset_pin, reset_level,
                   spi_locked, buffer, _contrast, _invert, pagemap,
                   sent_contrast, log, shown, ctl>>

\* Line 151: self.write_cmd(self.CMD_SET_COLUMN_UPPER | ((0 >> 4) & 0xF))
ShowColumnUpper ==
    /\ At("show", "column_upper")
    /\ stack' = Call(Frame("write_cmd", "dc", ColumnUpperCmd), "dc")
    /\ UNCHANGED <<op, result, ret, _dc_pin, _reset_pin, reset_level,
                   spi_locked, buffer, _contrast, _invert, pagemap,
                   sent_contrast, log, shown, ctl>>

\* Line 158: self._dc_pin.value = True
ShowDc ==
    /\ At("show", "dc")
    /\ _dc_pin' = TRUE
    /\ log' = Append(log, DcEv(TRUE))
    /\ stack' = Goto("enter")
    /\ UNCHANGED <<op, result, ret, _reset_pin, reset_level, spi_locked,
                   buffer, _contrast, _invert, pagemap, sent_contrast,
                   shown, ctl>>

\* Line 159: with self.spi_device as spi (the context is entered)
ShowEnter ==
    /\ At("show", "enter")
    /\ spi_locked' = TRUE
    /\ log' = Append(log, EnterEv)
    /\ stack' = Goto("write")
    /\ UNCHANGED <<op, result, ret, _dc_pin, _reset_pin, reset_level, buffer,
                   _contrast, _invert, pagemap, sent_contrast, shown, ctl>>

\* Line 160: spi.write(self.buffer[row_start:row_stop]) returns
ShowWrite ==
    /\ At("show", "write")
    /\ log' = Append(log, WriteEv(PageData(buffer, Top.arg), "none"))
    /\ stack' = Goto("exit")
    /\ UNCHANGED <<op, result, ret, _dc_pin, _reset_pin, reset_level,
                   spi_locked, buffer, _contrast, _invert, pagemap,
                   sent_contrast, shown, ctl>>

\* Line 160: spi.write(self.buffer[row_start:row_stop]) raises e
ShowWriteFail(e) ==
    /\ At("show", "write")
    /\ log' = Append(log, WriteEv(PageData(buffer, Top.arg), e))
    /\ stack' = <<[Top EXCEPT !.pc = "exit", !.exc = e]>> \o Tail(stack)
    /\ UNCHANGED <<op, result, ret, _dc_pin, _reset_pin, reset_level,
                   spi_locked, buffer, _contrast, _invert, pagemap,
                   sent_contrast, shown, ctl>>

\* Lines 159-160: the context is left; the loop goes on, or the exception
\* raised inside the block goes on to the caller.
ShowExit ==
    /\ At("show", "exit")
    /\ spi_locked' = FALSE
    /\ log' = Append(log, ExitEv)
    /\ IF Top.exc = "none"
       THEN /\ stack' = Goto("for")
            /\ result' = result
       ELSE /\ stack' = Unwind
            /\ result' = Top.exc
    /\ UNCHANGED <<op, ret, _dc_pin, _reset_pin, reset_level, buffer,
                   _contrast, _invert, pagemap, sent_contrast, shown, ctl>>

-----------------------------------------------------------------------------
(* invert and contrast properties *)

\* Mutant of InvertCmd: the two commands are exchanged.
InvertCmd_Exchanged(val) ==
    IF val THEN CMD_SET_DISP_NORMAL ELSE CMD_SET_DISP_REVERSE

\* Lines 171-174: the command the invert setter writes for val
InvertCmd(val) == IF val THEN CMD_SET_DISP_REVERSE ELSE CMD_SET_DISP_NORMAL

\* Line 170: self._invert = val
InvertStore ==
    /\ At("invert", "store")
    /\ _invert' = Top.arg
    /\ stack' = Goto("cmd")
    /\ UNCHANGED <<op, result, ret, _dc_pin, _reset_pin, reset_level,
                   spi_locked, buffer, _contrast, pagemap, sent_contrast, log,
                   shown, ctl>>

\* Lines 171-174: self.write_cmd(...), the last statement of the setter
InvertWrite ==
    /\ At("invert", "cmd")
    /\ stack' = Call(Frame("write_cmd", "dc", InvertCmd(Top.arg)), "return")
    /\ UNCHANGED <<op, result, ret, _dc_pin, _reset_pin, reset_level,
                   spi_locked, buffer, _contrast, _invert, pagemap,
                   sent_contrast, log, shown, ctl>>

\* Mutant of Clamp: the lower limit is forgotten.
Clamp_NoLowerLimit(val) == Min(val, \h7F)

\* Line 184: max(0, min(val, 0x7F))
Clamp(val) == Max(0, Min(val, \h7F))

\* Mutant of VolumeSecondCmd: the 7-bit cache is scaled to the 6-bit register.
VolumeSecondCmd_Shifted(c) ==
    BitOr(CMD_SET_VOLUME_SECOND, BitAnd(ShiftRight(c, 1), \h3F))

\* Line 186: CMD_SET_VOLUME_SECOND | (self._contrast & 0x3F)
VolumeSecondCmd(c) == BitOr(CMD_SET_VOLUME_SECOND, BitAnd(c, \h3F))

\* Mutant of ContrastStore: the setter returns at once when the clamped value
\* is the cached one.
ContrastStore_DirtyCheck ==
    /\ At("contrast", "clamp")
    /\ _contrast' = Clamp(Top.arg)
    /\ stack' = IF _contrast' = _contrast THEN Return ELSE Goto("first")
    /\ result' = Outcome(stack')
    /\ UNCHANGED <<op, ret, _dc_pin, _reset_pin, reset_level, spi_locked,
                   buffer, _invert, pagemap, sent_contrast, log, shown, ctl>>

\* Line 184: self._contrast = max(0, min(val, 0x7F))
ContrastStore ==
    /\ At("contrast", "clamp")
    /\ _contrast' = Clamp(Top.arg)
    /\ stack' = Goto("first")
    /\ UNCHANGED <<op, result, ret, _dc_pin, _reset_pin, reset_level,
                   spi_locked, buffer, _invert, pagemap, sent_contrast, log,
                   shown, ctl>>

\* Line 185: self.write_cmd(self.CMD_SET_VOLUME_FIRST)
ContrastFirst ==
    /\ At("contrast", "first")
    /\ stack' = Call(Frame("write_cmd", "dc", CMD_SET_VOLUME_FIRST), "second")
    /\ UNCHANGED <<op, result, ret, _dc_pin, _reset_pin, reset_level,
                   spi_locked, buffer, _contrast, _invert, pagemap,
                   sent_contrast, log, shown, ctl>>

\* Line 186: self.write_cmd(...), the last statement of the setter
ContrastSecond ==
    /\ At("contrast", "second")
    /\ stack' = Call(Frame("write_cmd", "dc", VolumeSecondCmd(_contrast)),
                     "return")
    /\ UNCHANGED <<op, result, ret, _dc_pin, _reset_pin, reset_level,
                   spi_locked, buffer, _contrast, _invert, pagemap,
                   sent_contrast, log, shown, ctl>>

-----------------------------------------------------------------------------
(* Calls made by the application on a constructed driver *)

\* The first state of top-level call `name` with argument `arg`.
Begin(name, arg, frames) ==
    /\ Idle
    /\ op' = [name |-> name, arg |-> arg,
              was |-> [contrast |-> _contrast, invert |-> _invert]]
    /\ stack' = frames
    /\ result' = IF frames = <<>> THEN "ok" ELSE "pending"
    /\ log' = <<>>

CallShow ==
    /\ Begin("show", None, <<Frame("show", "for", None)>>)
    /\ ret' = None
    /\ UNCHANGED <<_dc_pin, _reset_pin, reset_level, spi_locked, buffer,
                   _contrast, _invert, pagemap, sent_contrast, shown, ctl>>

CallReset ==
    /\ Begin("reset", None, <<Frame("reset", "test", None)>>)
    /\ ret' = None
    /\ shown' = Intervened(shown)
    /\ UNCHANGED <<_dc_pin, _reset_pin, reset_level, spi_locked, buffer,
                   _contrast, _invert, pagemap, sent_contrast, ctl>>

SetContrast(val) ==
    /\ Begin("contrast", val, <<Frame("contrast", "clamp", val)>>)
    /\ ret' = None
    /\ shown' = Intervened(shown)
    /\ UNCHANGED <<_dc_pin, _reset_pin, reset_level, spi_locked, buffer,
                   _contrast, _invert, pagemap, sent_contrast, ctl>>

SetInvert(val) ==
    /\ Begin("invert", val, <<Frame("invert", "store", val)>>)
    /\ ret' = None
    /\ shown' = Intervened(shown)
    /\ UNCHANGED <<_dc_pin, _reset_pin, reset_level, spi_locked, buffer,
                   _contrast, _invert, pagemap, sent_contrast, ctl>>

\* Mutant of GetContrast: the getter writes the cached value to the
\* controller again before returning it.
GetContrast_Resend ==
    /\ Begin("get_contrast", None, <<Frame("contrast", "clamp", _contrast)>>)
    /\ ret' = _contrast
    /\ UNCHANGED <<_dc_pin, _reset_pin, reset_level, spi_locked, buffer,
                   _contrast, _invert, pagemap, sent_contrast, shown, ctl>>

\* Lines 176-179: return self._contrast
GetContrast ==
    /\ Begin("get_contrast", None, <<>>)
    /\ ret' = _contrast
    /\ UNCHANGED <<_dc_pin, _reset_pin, reset_level, spi_locked, buffer,
                   _contrast, _invert, pagemap, sent_contrast, shown, ctl>>

\* Lines 162-165: return self._invert
GetInvert ==
    /\ Begin("get_invert", None, <<>>)
    /\ ret' = _invert
    /\ UNCHANGED <<_dc_pin, _reset_pin, reset_level, spi_locked, buffer,
                   _contrast, _invert, pagemap, sent_contrast, shown, ctl>>

\* The bytes of the surface that differ from the freshly allocated surface.
Drawn(buf) == {j \in DrawIndex : buf[j + 1] # 0}

\* A drawing primitive of the framebuffer base class stores v at buffer[j]
\* (line 93 hands self.buffer to it).
Draw(j, v) ==
    /\ Begin("draw", j, <<>>)
    /\ j \notin Drawn(buffer)
    /\ Cardinality(Drawn(buffer)) < MaxDrawn
    /\ buffer' = [buffer EXCEPT ![j + 1] = v]
    /\ ret' = None
    /\ shown' = Forgotten(shown)
    /\ UNCHANGED <<_dc_pin, _reset_pin, reset_level, spi_locked, _contrast,
                   _invert, pagemap, sent_contrast, ctl>>

-----------------------------------------------------------------------------

Next ==
    \/ InitReset \/ InitWriteCmd \/ InitSleep \/ InitContrast
    \/ ResetTest \/ ResetLow \/ ResetSleepLow \/ ResetHigh \/ ResetSleepHigh
    \/ WriteCmdDc \/ WriteCmdEnter \/ WriteCmdWrite \/ WriteCmdExit
    \/ \E e \in BusErrors : WriteCmdWriteFail(e)
    \/ ShowFor \/ ShowSetPage \/ ShowColumnLower \/ ShowColumnUpper
    \/ ShowDc \/ ShowEnter \/ ShowWrite \/ ShowExit
    \/ \E e \in BusErrors : ShowWriteFail(e)
    \/ InvertStore \/ InvertWrite
    \/ ContrastStore \/ ContrastFirst \/ ContrastSecond
    \/ CallShow \/ CallReset
    \/ \E val \in ContrastInputs : SetContrast(val)
    \/ \E val \in BOOLEAN : SetInvert(val)
    \/ GetContrast \/ GetInvert
    \/ \E j \in DrawIndex, v \in DrawValue : Draw(j, v)

Spec == Init /\ [][Next]_vars

\* The same calls on a driver with a permuted page map.
SpecPagemap == InitPagemap /\ [][Next]_vars

\* The same calls, the writes of show() being kept for comparison.
SpecShown == InitShown /\ [][Next]_vars

\* show(), reset() and the setters and getters on a bus that never fails, the
\* controller being observed.
NextController ==
    \/ InitReset \/ InitWriteCmd \/ InitSleep \/ InitContrast
    \/ ResetTest \/ ResetLow \/ ResetSleepLow \/ ResetHigh \/ ResetSleepHigh
    \/ WriteCmdDc \/ WriteCmdEnter \/ WriteCmdWrite \/ WriteCmdExit
    \/ ShowFor \/ ShowSetPage \/ ShowColumnLower \/ ShowColumnUpper
    \/ ShowDc \/ ShowEnter \/ ShowWrite \/ ShowExit
    \/ InvertStore \/ InvertWrite
    \/ ContrastStore \/ ContrastFirst \/ ContrastSecond
    \/ CallShow \/ CallReset
    \/ \E val \in ContrastInputs : SetContrast(val)
    \/ \E val \in BOOLEAN : SetInvert(val)
    \/ GetContrast \/ GetInvert

SpecController == InitController /\ [][NextController]_vars

-----------------------------------------------------------------------------
(* Reading the log *)

\* Every call of spi.write, returned or raised, oldest first.
Writes(l) == SelectSeq(l, LAMBDA e : e.k = "write")

\* A write is a command write when the data/command line is low during it,
\* a data write when the line is high.
IsCmdWrite(w, byte) == ~w.dc /\ w.data = <<byte>>

CmdWrites(l) == SelectSeq(Writes(l), LAMBDA w : ~w.dc)

DataWrites(l) == SelectSeq(Writes(l), LAMBDA w : w.dc)

RECURSIVE DataBytes(_)
DataBytes(ws) ==
    IF ws = <<>> THEN 0 ELSE Len(Head(ws).data) + DataBytes(Tail(ws))

\* The top-level call `name` has returned to its caller without an exception.
Completed(name) == stack = <<>> /\ op.name = name /\ result = "ok"

\* clamp(v, 0, 127) as the specification states it.
Clamped(v) == IF v < 0 THEN 0 ELSE IF v > 127 THEN 127 ELSE v

Pages == LCDHEIGHT \div 8

-----------------------------------------------------------------------------
(* Claims *)

\* C1: a show() that meets no bus failure writes, for each of the 8 pages
\* in page-map order, the single-byte commands 0xB0 | physical page, 0x00,
\* 0x10 and then one data write of exactly LCDWIDTH bytes, and nothing
\* else: 24 command writes, 8 data writes, 1024 data bytes.
C1_ShowWrites ==
    Completed("show") =>
        LET w == Writes(log)
        IN  /\ Len(w) = 4 * Pages
            /\ \A n \in 1..Len(w) : w[n].raised = "none"
            /\ \A p \in 0..(Pages - 1) :
                 /\ IsCmdWrite(w[4 * p + 1], \hB0 + pagemap[p + 1])
                 /\ IsCmdWrite(w[4 * p + 2], \h00)
                 /\ IsCmdWrite(w[4 * p + 3], \h10)
                 /\ w[4 * p + 4].dc
                 /\ Len(w[4 * p + 4].data) = LCDWIDTH
            /\ Len(CmdWrites(log)) = 24
            /\ Len(DataWrites(log)) = 8
            /\ DataBytes(DataWrites(log)) = 1024

C1_Witness == Completed("show") /\ Drawn(buffer) # {}

\* C2: the data write show() makes for logical page p carries the buffer
\* bytes p*LCDWIDTH .. (p+1)*LCDWIDTH - 1, in buffer order.  Stated for every
\* data write of a show() in progress, completed or failed: the n-th data
\* write is the one for the n-th page of the page map.
C2_PageData ==
    op.name = "show" =>
        LET d == DataWrites(log)
        IN  \A n \in 1..Len(d) :
              LET p == pagemap[n]
              IN  d[n].data = [c \in 1..LCDWIDTH |-> buffer[p * LCDWIDTH + c]]

C2_Witness ==
    /\ Completed("show")
    /\ buffer[201] = \hA5
    /\ Len(DataWrites(log)) = 8
    /\ DataWrites(log)[2].data[73] = \hA5

\* C3: after the contrast setter is called with v and its writes succeed the
\* getter returns clamp(v, 0, 127), also for v < 0 and v > 127; once
\* construction has succeeded the cached contrast is always in 0..127.
C3_ContrastClamped ==
    /\ [](/\ Completed("contrast") => _contrast = Clamped(op.arg)
          /\ Completed("__init__") => _contrast = Clamped(op.arg)
          /\ Constructed => _contrast \in 0..127)
    /\ [][(Completed("contrast") /\ op'.name = "get_contrast")
            => ret' = Clamped(op.arg)]_vars
    /\ [][(Completed("__init__") /\ op'.name = "get_contrast")
            => ret' = Clamped(op.arg)]_vars

C3_Witness ==
    /\ Completed("get_contrast")
    /\ op.was.contrast = 127
    /\ ret = 127
    /\ sent_contrast = 63

\* C4: a call of the contrast setter with value v writes exactly two
\* commands, 0x81 and then clamp(v, 0, 127) AND 0x3F, whether or not the
\* clamped value equals the cached contrast; the second byte is in
\* 0x00..0x3F.  Stated for every state of the call: what it has written is
\* always a prefix of that pair (a bus failure ends the call there), and it
\* is the whole pair once the call has returned.  The setter call that ends
\* __init__ writes the same pair after the ten set-up commands.
C4_ContrastPair ==
    op.name \in {"contrast", "__init__"} =>
        LET w == Writes(log)
            second == Clamped(op.arg) % 64
            pair == <<\h81, second>>
        IN  /\ second \in 0..\h3F
            /\ op.name = "contrast" =>
                 /\ Len(w) <= 2
                 /\ \A n \in 1..Len(w) : IsCmdWrite(w[n], pair[n])
                 /\ Completed("contrast") => Len(w) = 2
            /\ op.name = "__init__" =>
                 /\ Len(w) <= 12
                 /\ \A n \in 11..Len(w) : IsCmdWrite(w[n], pair[n - 10])
                 /\ Completed("__init__") => Len(w) = 12

C4_Witness ==
    /\ Completed("contrast")
    /\ op.arg = 300
    /\ op.was.contrast = 127
    /\ Len(Writes(log)) = 2

\* C5: in every state a caller can observe, also after a write of the
\* contrast setter has failed, the cached contrast is the value of the last
\* contrast pair written in full (compared in the 6 bits the pair carries).
C5_CacheIsLastPair ==
    Idle => _contrast % 64 = sent_contrast

\* C6: after the invert setter is called with True the getter returns True
\* and the command written is display-reverse (0xA7); after it is called
\* with False the getter returns False and the command written is
\* display-normal (0xA6); each call makes exactly one command write.
C6_InvertRoundTrip ==
    /\ [](op.name = "invert" =>
            LET w == Writes(log)
            IN  /\ Len(w) <= 1
                /\ \A n \in 1..Len(w) :
                     IsCmdWrite(w[n], IF op.arg THEN \hA7 ELSE \hA6)
                /\ stack = <<>> => (Len(w) = 1 /\ _invert = op.arg))
    /\ [][(stack = <<>> /\ op.name = "invert" /\ op'.name = "get_invert")
            => ret' = op.arg]_vars

C6_Witness ==
    /\ Completed("invert")
    /\ op.arg
    /\ ~op.was.invert
    /\ _invert
    /\ Writes(log)[1].data = <<\hA7>>

\* C7: initialization with a reset line makes exactly two level changes on
\* the reset line, low then high, each followed by a delay of at least
\* 500 ms, all before the first command byte is written.
C7_InitResetPulse ==
    (op.name = "__init__" /\ _reset_pin) =>
        LET n == Len(log)
        IN  /\ n >= 1 => log[1] = ResetEv(FALSE)
            /\ n >= 2 => (log[2].k = "sleep" /\ log[2].ms >= 500)
            /\ n >= 3 => log[3] = ResetEv(TRUE)
            /\ n >= 4 => (log[4].k = "sleep" /\ log[4].ms >= 500)
            /\ \A m \in 5..n : log[m].k # "reset_pin"
            /\ n >= 4 => reset_level
            /\ stack = <<>> => n > 4

C7_Witness ==
    /\ Completed("__init__")
    /\ _reset_pin
    /\ Len(Writes(log)) = 12

\* C8: initialization without a reset line never writes a reset pin and
\* never sleeps for the reset-settle time (500 ms); the first thing it does
\* after set-up is the first command write.
C8_InitNoResetPin ==
    (op.name = "__init__" /\ ~_reset_pin) =>
        /\ \A m \in 1..Len(log) :
             /\ log[m].k # "reset_pin"
             /\ log[m].k = "sleep" => log[m].ms < 500
        /\ Len(log) >= 1 => log[1] = DcEv(FALSE)
        /\ Len(log) >= 2 => log[2] = EnterEv
        /\ Len(log) >= 3 => (log[3].k = "write" /\ log[3].data = <<\hA3>>)

C8_Witness ==
    /\ Completed("__init__")
    /\ ~_reset_pin
    /\ Len(Writes(log)) = 12

\* The bytes of single-byte writes.
Bytes(ws) == [n \in 1..Len(ws) |-> ws[n].data[1]]

Kinds(l) == [n \in 1..Len(l) |-> l[n].k]

IsPrefix(a, b) == Len(a) <= Len(b) /\ a = SubSeq(b, 1, Len(a))

\* C9: a successful initialization writes exactly the command bytes 0xA3,
\* 0xA1, 0xC0, 0x40, 0x2C, 0x2E, 0x2F, 0x27, 0xAF, 0xA4 and then the contrast
\* pair, in this order; only delays lie between the three power stages, and
\* display ON comes after resistor ratio and before all-points-normal.  An
\* initialization that fails has written a prefix of this sequence.
C9_InitCommands ==
    op.name = "__init__" =>
        LET w == Writes(log)
            bytes == <<\hA3, \hA1, \hC0, \h40, \h2C, \h2E, \h2F, \h27, \hAF,
                       \hA4, \h81, Clamped(op.arg) % 64>>
            steps == SelectSeq(log, LAMBDA e : e.k \in {"write", "sleep"})
            pulse == IF _reset_pin THEN <<"sleep", "sleep">> ELSE <<>>
            kinds == pulse \o
                     <<"write", "write", "write", "write",
                       "write", "sleep", "write", "sleep", "write", "sleep",
                       "write", "write", "write", "write", "write">>
        IN  /\ \A n \in 1..Len(w) : Len(w[n].data) = 1 /\ ~w[n].dc
            /\ IsPrefix(Bytes(w), bytes)
            /\ IsPrefix(Kinds(steps), kinds)
            /\ Completed("__init__") =>
                 /\ Bytes(w) = bytes
                 /\ Kinds(steps) = kinds
                 /\ \A n \in 1..Len(w) : w[n].raised = "none"

C9_Witness ==
    /\ Completed("__init__")
    /\ op.arg = 300
    /\ Bytes(Writes(log))[12] = 63

\* C10: when a write fails during show() or during initialization the call
\* stops at that write: the only thing it still does is leave the bus
\* context; it writes nothing more (no further command, data, page or
\* retry), and the exception the transport raised is the one the caller gets.
C10_FailureStops ==
    op.name \in {"show", "__init__"} =>
        LET w == Writes(log)
            failed == {m \in 1..Len(log) :
                         log[m].k = "write" /\ log[m].raised # "none"}
        IN  /\ \A m \in failed :
                 /\ m >= Len(log) - 1
                 /\ m = Len(log) - 1 => log[Len(log)] = ExitEv
                 /\ stack = <<>> => result = log[m].raised
                 /\ stack # <<>> => result = "pending"
            /\ \A n \in 1..Len(w) : w[n].raised # "none" => n = Len(w)
            /\ result \in BusErrors =>
                 (failed # {} /\ stack = <<>> /\ ~spi_locked)
            /\ result = "ok" => failed = {}

C10_Witness ==
    /\ op.name = "show"
    /\ stack = <<>>
    /\ result = "OSError"
    /\ Len(Writes(log)) = 6
    /\ Len(DataWrites(log)) = 1

\* C11: the surface buffer has length LCDWIDTH * LCDHEIGHT / 8 (1024 bytes)
\* after construction and in every state reached by show(), reset(),
\* contrast and invert operations.
C11_BufferLength ==
    Len(buffer) = (LCDWIDTH * LCDHEIGHT) \div 8

\* C13: the contrast getter and the invert getter return the cached value
\* and cause no bus acquisition, no bus write and no change of the
\* data/command line, the reset line or any cached state.
C13_GettersPure ==
    /\ [](op.name \in {"get_contrast", "get_invert"} =>
            /\ stack = <<>>
            /\ result = "ok"
            /\ log = <<>>
            /\ ~spi_locked
            /\ _contrast = op.was.contrast
            /\ _invert = op.was.invert
            /\ op.name = "get_contrast" => ret = op.was.contrast
            /\ op.name = "get_invert" => ret = op.was.invert)
    /\ [][op'.name \in {"get_contrast", "get_invert"} =>
            UNCHANGED <<_dc_pin, _reset_pin, reset_level, spi_locked, buffer,
                        _contrast, _invert, pagemap, sent_contrast>>]_vars

C13_Witness ==
    /\ op.name = "get_invert"
    /\ ret
    /\ _dc_pin
    /\ _contrast = 64

\* The first events of a reset pulse: low, a delay of at least 500 ms, high,
\* a delay of at least 500 ms.
IsResetPulse(l) ==
    /\ Len(l) <= 4
    /\ Len(l) >= 1 => l[1] = ResetEv(FALSE)
    /\ Len(l) >= 2 => (l[2].k = "sleep" /\ l[2].ms >= 500)
    /\ Len(l) >= 3 => l[3] = ResetEv(TRUE)
    /\ Len(l) >= 4 => (l[4].k = "sleep" /\ l[4].ms >= 500)

\* C14: reset() called by the application does what the reset step of
\* initialization does: with a reset line it drives the line low, waits at
\* least 500 ms, drives it high, waits at least 500 ms, and writes nothing
\* to the bus; without a reset line it does nothing.
C14_ManualReset ==
    /\ op.name = "reset" =>
         /\ result \in {"pending", "ok"}
         /\ ~spi_locked
         /\ IF _reset_pin
            THEN /\ IsResetPulse(log)
                 /\ stack = <<>> => (Len(log) = 4 /\ reset_level)
            ELSE log = <<>> /\ reset_level
         /\ stack = <<>> => result = "ok"
    /\ (op.name = "__init__" /\ _reset_pin) =>
         IsResetPulse(SubSeq(log, 1, Min(4, Len(log))))

C14_Witness ==
    /\ Completed("reset")
    /\ _reset_pin
    /\ Len(log) = 4
    /\ _invert

\* C15: a command byte is always written with the data/command line low and
\* a page's pixel data with the line high; show() raises the line only after
\* the page's three addressing commands, and the next command, of the next
\* page or of a later call, is written with the line low again.
C15_DcLine ==
    /\ (stack # <<>> /\ Top.fn = "write_cmd" /\ Top.pc \in {"write", "exit"})
         => ~_dc_pin
    /\ (stack # <<>> /\ Top.fn = "show" /\ Top.pc \in {"write", "exit"})
         => _dc_pin
    /\ op.name = "show" =>
         /\ \A n \in 1..Len(Writes(log)) :
              /\ Writes(log)[n].dc <=> (n % 4 = 0)
              /\ Writes(log)[n].dc => Len(Writes(log)[n].data) = LCDWIDTH
              /\ ~Writes(log)[n].dc => Len(Writes(log)[n].data) = 1
         /\ \A m \in 1..Len(log) :
              log[m] = DcEv(TRUE) =>
                Len(Written(SubSeq(log, 1, m))) % 4 = 3
    /\ op.name # "show" =>
         \A n \in 1..Len(Writes(log)) :
            ~Writes(log)[n].dc /\ Len(Writes(log)[n].data) = 1

C15_Witness ==
    /\ op.name = "show"
    /\ At("write_cmd", "write")
    /\ Len(Writes(log)) = 4
    /\ Writes(log)[4].dc
    /\ ~_dc_pin

\* The bus events of a log.
BusEvents(l) == SelectSeq(l, LAMBDA e : e.k \in {"enter", "write", "exit"})

\* C16: every bus write happens inside its own acquisition: acquire, exactly
\* one write, release.  No acquisition is made while one is held, no
\* acquisition sees two writes, and when a call has returned or failed the
\* bus is released.
C16_ScopedWrites ==
    LET b == BusEvents(log)
    IN  /\ \A n \in 1..Len(b) :
             b[n].k = <<"enter", "write", "exit">>[((n - 1) % 3) + 1]
        /\ spi_locked <=> (Len(b) % 3 # 0)
        /\ (stack # <<>> /\ Top.pc = "enter") => ~spi_locked
        /\ stack = <<>> => ~spi_locked

C16_Witness ==
    /\ op.name = "show"
    /\ stack = <<>>
    /\ result \in BusErrors
    /\ Len(BusEvents(log)) = 12
    /\ ~spi_locked

\* The writes and delays of __init__ that follow its reset step.
InitSteps ==
    LET steps == SelectSeq(log, LAMBDA e : e.k \in {"write", "sleep"})
    IN  IF _reset_pin /\ Len(steps) >= 2
        THEN SubSeq(steps, 3, Len(steps))
        ELSE IF _reset_pin THEN <<>> ELSE steps

IsWriteOf(e, byte) == e.k = "write" /\ e.data = <<byte>>

IsDelay(e, ms) == e.k = "sleep" /\ e.ms >= ms

\* C17: in initialization a delay of at least 50 ms lies between the power
\* stage 1 and stage 2 commands, one of at least 50 ms between stage 2 and
\* stage 3, and one of at least 10 ms between stage 3 and the resistor ratio
\* command; each command is written after the delay before it.
C17_InitDelays ==
    op.name = "__init__" =>
        LET t == InitSteps
            n == Len(t)
        IN  /\ n >= 5 => IsWriteOf(t[5], \h2C)
            /\ n >= 6 => IsDelay(t[6], 50)
            /\ n >= 7 => IsWriteOf(t[7], \h2E)
            /\ n >= 8 => IsDelay(t[8], 50)
            /\ n >= 9 => IsWriteOf(t[9], \h2F)
            /\ n >= 10 => IsDelay(t[10], 10)
            /\ n >= 11 => IsWriteOf(t[11], \h27)
            /\ Completed("__init__") => n = 15

C17_Witness ==
    /\ Completed("__init__")
    /\ _reset_pin
    /\ Len(InitSteps) = 15
    /\ IsDelay(InitSteps[10], 10)

\* C19: show() and reset() change neither the surface buffer nor the cached
\* contrast nor the cached invert flag, whether they complete or fail; once
\* the driver is constructed the two caches change only in their setters.
C19_ShowResetFrame ==
    /\ [](op.name \in {"show", "reset"} =>
            /\ _contrast = op.was.contrast
            /\ _invert = op.was.invert)
    /\ [][op'.name \in {"show", "reset"} =>
            UNCHANGED <<buffer, _contrast, _invert>>]_vars
    /\ [][(Constructed /\ _contrast' # _contrast) =>
            (op.name = "contrast" /\ At("contrast", "clamp"))]_vars
    /\ [][(Constructed /\ _invert' # _invert) =>
            (op.name = "invert" /\ At("invert", "store"))]_vars

C19_Witness ==
    /\ op.name = "show"
    /\ stack = <<>>
    /\ result \in BusErrors
    /\ _invert
    /\ _contrast = 127
    /\ Drawn(buffer) # {}

\* C12: show() does not skip or shorten a transfer because of earlier
\* calls: a show() made with the buffer content of an earlier completed
\* show() writes what that call wrote, whatever calls were made before
\* either of them and between them.
C12_ShowRepeats ==
    (op.name = "show" /\ shown.valid) =>
        /\ IsPrefix(Written(log), shown.ref)
        /\ Completed("show") => Writes(log) = shown.ref

C12_Witness ==
    /\ Completed("show")
    /\ shown.valid
    /\ shown.between
    /\ Len(shown.ref) = 4 * Pages
    /\ Writes(log) = shown.ref
    /\ Drawn(buffer) # {}

\* C18: with a page map that is any permutation of the pages, a show() that
\* returns has addressed every physical page exactly once, and the data
\* write that follows the set-page command of physical page pagemap[p] is
\* the buffer slice of logical page p, so that every logical page is sent
\* exactly once.
C18_PermutedShow ==
    /\ Len(pagemap) = Pages
    /\ {pagemap[i] : i \in 1..Pages} = 0..(Pages - 1)
    /\ Completed("show") =>
         LET w == Writes(log)
         IN  /\ Len(w) = 4 * Pages
             /\ \A p \in 0..(Pages - 1) :
                  LET at == {n \in 0..(Pages - 1) :
                               IsCmdWrite(w[4 * n + 1], \hB0 + pagemap[p + 1])}
                  IN  /\ Cardinality(at) = 1
                      /\ \A n \in at :
                           /\ w[4 * n + 4].dc
                           /\ w[4 * n + 4].data =
                                [c \in 1..LCDWIDTH |-> buffer[p * LCDWIDTH + c]]

C18_Witness ==
    /\ Completed("show")
    /\ pagemap = <<1, 2, 3, 4, 5, 6, 7, 0>>
    /\ buffer[201] = \hA5
    /\ IsCmdWrite(Writes(log)[1], \hB2)
    /\ Writes(log)[4].data[73] = \hA5

\* C20, as claimed, for a driver that has a reset line (its construction
\* pulses the line, so nothing the controller held before remains): whenever
\* no call is in progress on a constructed driver whose bus never failed,
\* the cached invert flag is the controller's inversion mode and the cached
\* contrast modulo 64 is the controller's contrast register.
C20_CacheIsController ==
    (Idle /\ ctl.on /\ _reset_pin) =>
        /\ _invert = ctl.invert
        /\ _contrast % 64 = ctl.contrast

\* C20, amended: the cached contrast modulo 64 is the controller's contrast
\* register unless a reset() call pulsed the reset line after the last
\* contrast pair; the cached invert flag is the controller's inversion mode
\* once the controller's mode comes from the reset pulse of construction or
\* from a display normal / reverse command, and no reset() call pulsed the
\* line after it.
C20_CacheIsControllerUnlessReset ==
    (Idle /\ ctl.on) =>
        /\ ctl.invert_from \in {"init_reset", "command"} =>
             _invert = ctl.invert
        /\ ctl.contrast_from = "command" => _contrast % 64 = ctl.contrast
        /\ ctl.contrast_from \in {"command", "reset"}
        /\ ctl.contrast_from = "reset" =>
             (_reset_pin /\ ctl.contrast = CTL_DEFAULT_VOLUME)
        /\ ctl.invert_from = "reset" => (_reset_pin /\ ~ctl.invert)
        /\ ctl.invert_from = "power" => ~_reset_pin

C20_Witness ==
    /\ Completed("contrast")
    /\ ctl.on
    /\ ctl.contrast_from = "command"
    /\ ctl.invert_from = "reset"
    /\ _contrast = 127
    /\ ctl.contrast = 63
    /\ _invert
    /\ ~ctl.invert

====
